---- MODULE Spec2Model ----
(***************************************************************************)
(* Model of the Vertex AI Vector Search importer                           *)
(* (src/src/import_vdf/vertexai_vector_search_import.py): the constructor  *)
(* reconciles index, endpoint and deployment against the remote service,   *)
(* upsert_data streams the rows of the manifest's files into the index.    *)
(*                                                                         *)
(* The conditional expressions of the constructor (lines 56-66, 123-139,   *)
(* 150-164) are read as `x if x is not None else default`.                 *)
(***************************************************************************)
EXTENDS Integers, Sequences, FiniteSets, TLC

\* ------------------------------------------------------------------ bounds
MaxRows  == 4     \* rows of one parquet file
MaxFiles == 2     \* parquet files of one manifest
MaxBatch == 4     \* configured batch_size

\* ------------------------------------------------------- program constants
DefaultBatchSize == 100

\* ------------------------------------------------------------ Python values
\* A value that may be None, or whose type decides an attribute access, is a
\* record carrying its type; an attribute is a field of the record.
None     == [type |-> "NoneType"]
PyStr(s) == [type |-> "str", s |-> s]
PyInt(n) == [type |-> "int", n |-> n]
PyBool(b) == [type |-> "bool", b |-> b]
\* A float with a whole value, n.0.
PyFloat(n) == [type |-> "float", n |-> n]
PyList(items) == [type |-> "list", items |-> items]

\* str(v), lines 742, 747, 770.
str(v) ==
  CASE v.type = "str" -> v.s
    [] v.type = "int" -> ToString(v.n)
    [] v.type = "bool" -> IF v.b THEN "True" ELSE "False"
    [] v.type = "float" -> ToString(v.n) \o ".0"
    [] v.type = "NoneType" -> "None"

\* dict.get(key)
Get(d, key) == IF key \in DOMAIN d THEN d[key] ELSE None

\* The truth value of an optional list or str, as `if x:` takes it.
Truthy(v) ==
  /\ v /= None
  /\ v.type = "list" => v.items /= <<>>
  /\ v.type = "str" => v.s /= ""

HasAttr(obj, attr) == attr \in DOMAIN obj

\* ------------------------------------------------------------- sequences
RECURSIVE Flatten(_)
Flatten(ss) == IF ss = <<>> THEN <<>> ELSE Head(ss) \o Flatten(Tail(ss))

SeqOf(n, v) == [i \in 1..n |-> v]

\* ---------------------------------------------------------- remote service
VARIABLES
  indexes,           \* the service's Index resources, in listing order
  index_endpoints,   \* the service's IndexEndpoint resources, in listing order
  gcs_blobs,         \* objects uploaded to cloud storage
  calls              \* number of create / deploy requests the service received

\* ---------------------------------------------------------------- importer
VARIABLES
  args,                        \* self.args
  vdf_meta,                    \* self.vdf_meta
  pc,                          \* position of the run
  error,                       \* the exception that ended the run, or None
  index_name,                  \* self.index_name
  index_endpoint_name,         \* self.index_endpoint_name
  contents_delta_uri,          \* self.contents_delta_uri
  target_index,                \* self.target_index
  index_endpoint,              \* self.index_endpoint
  target_index_resource_name,  \* self.target_index_resource_name
  target_vertexai_index,       \* self.target_vertexai_index
  r,                           \* the long-running operation being polled
  ret                          \* value returned by the reconcile method

\* ------------------------------------------------------------- upsert_data
VARIABLES
  ns_i,                        \* namespace_meta being processed
  file_i,                      \* parquet file being processed
  idx,                         \* df.iterrows() index of the next row
  insert_datapoints_payload,
  total_ids,
  upsert_requests,             \* every upsert_datapoints request, with its outcome
  reported                     \* the count printed at the end of upsert_data

\* ------------------------------------------------------------- second run
VARIABLES
  run_no,                      \* which run of the importer this is
  first_run,                   \* what the first run resolved
  other                        \* a second importer run at the same time

backend_vars  == <<indexes, index_endpoints, gcs_blobs, calls>>
config_vars   == <<args, vdf_meta>>
self_vars     == <<index_name, index_endpoint_name, contents_delta_uri,
                   target_index, index_endpoint, target_index_resource_name,
                   target_vertexai_index, r, ret>>
upsert_vars   == <<ns_i, file_i, idx, insert_datapoints_payload, total_ids,
                   upsert_requests, reported>>
run_vars      == <<run_no, first_run, other>>
vars == <<backend_vars, config_vars, pc, error, self_vars, upsert_vars, run_vars>>

\* ------------------------------------------------------ service resources
IndexId(n)    == "indexes/" \o ToString(n)
EndpointId(n) == "indexEndpoints/" \o ToString(n)

NewIndex(id, display_name) ==
  [type |-> "Index", name |-> id, display_name |-> display_name,
   deployed_indexes |-> <<>>]

NewIndexEndpoint(id, display_name) ==
  [type |-> "IndexEndpoint", name |-> id, display_name |-> display_name,
   deployed_indexes |-> <<>>]

\* DeployedIndexRef, as listed under an Index.
DeployedIndexRef(endpoint_id, deployed_index_id) ==
  [index_endpoint |-> endpoint_id, deployed_index_id |-> deployed_index_id,
   display_name |-> deployed_index_id]

\* DeployedIndex, as listed under an IndexEndpoint.
DeployedIndex(id, index_id) ==
  [type |-> "DeployedIndex", id |-> id, display_name |-> id, index |-> index_id]

\* get_index / get_index_endpoint: the listed resource with this name.
GetByName(resources, name) ==
  LET hits == SelectSeq(resources, LAMBDA x : x.name = name)
  IN IF hits = <<>> THEN None ELSE hits[1]

\* ------------------------------------------------------------- _get_index
\* A lookup that compares the resource name only.
IndexMatchesResourceNameOnly(index, name) ==
  index.name = name

\* lines 288-292: a listed index matches by display name or by resource name.
IndexMatches(index, name) ==
  index.display_name = name \/ index.name = name

\* lines 299-302: the deployed-index references of every listed index.
AllDeployedRefs(all_indexes) ==
  Flatten([i \in 1..Len(all_indexes) |-> all_indexes[i].deployed_indexes])

\* lines 305-310
DeployedRefMatches(d_id, name) ==
  d_id.display_name = name \/ d_id.deployed_index_id = name

AliasIndexIdsSkipped(all_indexes, endpoints, name) == <<>>

\* lines 312-321: the index ids behind the deployments of the first matching
\* reference's endpoint that carry the requested name.
AliasIndexIds(all_indexes, endpoints, name) ==
  LET deployed_index_match ==
        SelectSeq(AllDeployedRefs(all_indexes),
                  LAMBDA d : DeployedRefMatches(d, name))
  IN IF deployed_index_match = <<>> THEN <<>>
     ELSE LET target_endpoint ==
                GetByName(endpoints, deployed_index_match[1].index_endpoint)
          IN IF target_endpoint = None THEN <<>>
             ELSE LET ds == SelectSeq(target_endpoint.deployed_indexes,
                                      LAMBDA d : d.id = name \/ d.display_name = name)
                  IN [i \in 1..Len(ds) |-> ds[i].index]

\* lines 283-336: None, or the index fetched for the first id found.
GetIndex(all_indexes, endpoints, name) ==
  LET direct  == SelectSeq(all_indexes, LAMBDA x : IndexMatches(x, name))
      ids     == IF direct /= <<>>
                 THEN [i \in 1..Len(direct) |-> direct[i].name]
                 ELSE AliasIndexIds(all_indexes, endpoints, name)
  IN IF ids = <<>> THEN None ELSE GetByName(all_indexes, ids[1])

\* The remote calls of _get_index that a transport error can strike:
\* list_indexes (283), the endpoint fetch of the alias phase (313-315) and
\* the final get_index (335); "none" is the lookup without an error.
Faults == {"list_indexes", "endpoint_fetch", "get_index"}

\* lines 296-324 under a fault: the except clause of lines 322-324 swallows
\* the error of the endpoint fetch and leaves the id list empty.
AliasIndexIdsUnder(all_indexes, endpoints, name, fault) ==
  LET deployed_index_match ==
        SelectSeq(AllDeployedRefs(all_indexes),
                  LAMBDA d : DeployedRefMatches(d, name))
  IN IF fault = "endpoint_fetch" /\ deployed_index_match /= <<>>
     THEN <<>>
     ELSE AliasIndexIds(all_indexes, endpoints, name)

\* lines 283-336 under a fault: the error leaves the lookup where no except
\* clause encloses the call (283, 335); otherwise the lookup returns.
GetIndexUnder(all_indexes, endpoints, name, fault) ==
  IF fault = "list_indexes"
  THEN [raised |-> TRUE, index |-> None]
  ELSE LET direct == SelectSeq(all_indexes, LAMBDA x : IndexMatches(x, name))
           ids    == IF direct /= <<>>
                     THEN [i \in 1..Len(direct) |-> direct[i].name]
                     ELSE AliasIndexIdsUnder(all_indexes, endpoints, name,
                                             fault)
       IN IF ids = <<>> THEN [raised |-> FALSE, index |-> None]
          ELSE IF fault = "get_index"
               THEN [raised |-> TRUE, index |-> None]
               ELSE [raised |-> FALSE,
                     index |-> GetByName(all_indexes, ids[1])]

\* ---------------------------------------------------- _get_index_endpoint
\* lines 349-353
EndpointMatches(response, name) ==
  response.display_name = name \/ response.name = name

\* lines 344-368
GetIndexEndpoint(endpoints, name) ==
  LET hits == SelectSeq(endpoints, LAMBDA x : EndpointMatches(x, name))
  IN IF hits = <<>> THEN None ELSE GetByName(endpoints, hits[1].name)

\* lines 257-271: the endpoint name after _set_index_endpoint_name, or None
\* when it raises ResourceNotExistException.
SetIndexEndpointName(param, current_index_name, current) ==
  IF param /= None THEN param
  ELSE IF current_index_name /= None
       THEN PyStr(current_index_name.s \o "_endpoint")
       ELSE None

\* ------------------------------------------------------------ run outcome
NoError == ""

\* The error is recorded and the constructor carries on to its end.
RaiseAndCarryOn(exc) ==
  /\ pc' = "ready"
  /\ error' = exc

\* An exception leaves the run: nothing after the raising line executes.
Raise(exc) ==
  /\ pc' = "failed"
  /\ error' = exc

\* ------------------------------------------------------------- constructor
UniqueId == "uuid4"

\* lines 56-58
batch_size ==
  IF args.batch_size /= None THEN args.batch_size.n ELSE DefaultBatchSize

\* A placeholder record without the zero vector.
InitEmbeddingBlobUnsized ==
  [bucket |-> args.gcs_bucket.s,
   name |-> "init_index/embeddings_0.json",
   id |-> UniqueId,
   embedding |-> <<>>]

\* lines 183-195: the placeholder record uploaded before the index is created.
InitEmbeddingBlob ==
  [bucket |-> args.gcs_bucket.s,
   name |-> "init_index/embeddings_0.json",
   id |-> UniqueId,
   embedding |-> SeqOf(args.dimensions.n, 0)]

\* lines 98-121: the entry kept for one configured filter; allow_list and
\* deny_list are the column names, present only when configured.
NamespaceFilterEntry(name) ==
  [namespace |-> name.namespace]
  @@ (IF Get(name, "allow_list") /= None
      THEN "allow_list" :> name.allow_list.items ELSE <<>>)
  @@ (IF Get(name, "deny_list") /= None
      THEN "deny_list" :> name.deny_list.items ELSE <<>>)

\* lines 93-125: self.list_restrict_entries
list_restrict_entries ==
  IF args.filter_restricts /= None
  THEN PyList([k \in 1..Len(args.filter_restricts.items) |->
                 NamespaceFilterEntry(args.filter_restricts.items[k])])
  ELSE None

\* lines 131-135: the source column of the configured filter is not kept.
NumericFilterEntry(name) ==
  [namespace |-> name.namespace, data_type |-> name.data_type]

\* lines 128-139: self.list_of_numeric_entries
list_of_numeric_entries ==
  IF args.numeric_restricts /= None
  THEN PyList([k \in 1..Len(args.numeric_restricts.items) |->
                 NumericFilterEntry(args.numeric_restricts.items[k])])
  ELSE None

\* lines 93, 123-125 and 128, 137-139: the local list is bound only when the
\* configured value is truthy, and read whenever it is not None.
FilterListUnbound ==
  \/ args.filter_restricts /= None /\ ~Truthy(args.filter_restricts)
  \/ args.numeric_restricts /= None /\ ~Truthy(args.numeric_restricts)

IndexesNeverMissing == FALSE

\* vdf_import_cls.py lines 84-85, reached through super().__init__ (line 52).
IndexesMissing == "indexes" \notin DOMAIN vdf_meta

\* lines 172-173
BucketMissing == args.gcs_bucket = None

DimensionsNeverMissing == FALSE

\* lines 174-175
DimensionsMissing == args.dimensions = None

\* lines 51-206 (create_new_index) and 51-145, 229 (otherwise): everything up
\* to the call of _create_index or _get_index.
Construct ==
  /\ pc = "init"
  /\ IF IndexesMissing
     THEN /\ Raise("Exception")
          /\ UNCHANGED <<index_name, contents_delta_uri, gcs_blobs>>
     ELSE IF FilterListUnbound
     THEN /\ Raise("UnboundLocalError")
          /\ UNCHANGED <<index_name, contents_delta_uri, gcs_blobs>>
     ELSE IF args.create_new_index
     THEN /\ index_name' = IF args.target_index_name = None
                           THEN PyStr("my_vvs_index_" \o UniqueId)
                           ELSE args.target_index_name
          /\ IF BucketMissing \/ DimensionsMissing
             THEN /\ Raise("ValueError")
                  /\ UNCHANGED <<contents_delta_uri, gcs_blobs>>
             ELSE IF args.dimensions = None
             THEN \* line 187: np.zeros(None) raises TypeError
                  /\ Raise("TypeError")
                  /\ contents_delta_uri' =
                       PyStr("gs://" \o args.gcs_bucket.s \o "/init_index")
                  /\ UNCHANGED gcs_blobs
             ELSE /\ contents_delta_uri' =
                       PyStr("gs://" \o args.gcs_bucket.s \o "/init_index")
                  /\ gcs_blobs' = gcs_blobs \cup {InitEmbeddingBlob}
                  /\ pc' = "create_index"
                  /\ UNCHANGED error
     ELSE /\ index_name' = args.target_index_name
          /\ pc' = "get_index"
          /\ UNCHANGED <<error, contents_delta_uri, gcs_blobs>>
  /\ UNCHANGED <<indexes, index_endpoints, calls, config_vars,
                 index_endpoint_name, target_index, index_endpoint,
                 target_index_resource_name, target_vertexai_index, r, ret,
                 upsert_vars, run_vars>>

\* lines 505-507: the name _create_index works with; the caller passes
\* self.index_name as the parameter.
CreateIndexName(param) ==
  IF param /= None THEN args.target_index_name ELSE index_name

\* lines 533-538 with 521-531: the creation request.
IndexRequest(name) ==
  [display_name |-> name,
   contents_delta_uri |-> contents_delta_uri,
   dimensions |-> args.dimensions,
   index_update_method |-> "STREAM_UPDATE"]

Operation(kind, request) ==
  [type |-> "Operation", kind |-> kind, state |-> "Pending",
   request |-> request, result |-> None, error |-> NoError]

\* lines 505-543: lookup, and the creation request when nothing is found.
CreateIndex ==
  /\ pc = "create_index"
  /\ LET name == CreateIndexName(index_name)
     IN /\ index_name' = name
        /\ IF name = None
           THEN /\ Raise("ResourceNotExistException")
                /\ UNCHANGED <<r, ret, calls>>
           ELSE LET index == GetIndex(indexes, index_endpoints, name.s)
                IN IF index /= None
                   THEN /\ ret' = index
                        /\ pc' = "create_index_return"
                        /\ UNCHANGED <<r, calls, error>>
                   ELSE /\ r' = Operation("create_index", IndexRequest(name.s))
                        /\ calls' = [calls EXCEPT !.create_index = @ + 1]
                        /\ pc' = "create_index_poll"
                        /\ UNCHANGED <<ret, error>>
  /\ UNCHANGED <<indexes, index_endpoints, gcs_blobs, config_vars,
                 index_endpoint_name, contents_delta_uri, target_index,
                 index_endpoint, target_index_resource_name,
                 target_vertexai_index, upsert_vars, run_vars>>

\* lines 505-543 while a transport error strikes one remote call of the
\* lookup.
CreateIndexUnderFault ==
  /\ pc = "create_index"
  /\ \E fault \in Faults :
       LET name == CreateIndexName(index_name)
       IN /\ index_name' = name
          /\ IF name = None
             THEN /\ Raise("ResourceNotExistException")
                  /\ UNCHANGED <<r, ret, calls>>
             ELSE LET found == GetIndexUnder(indexes, index_endpoints,
                                             name.s, fault)
                  IN IF found.raised
                     THEN /\ Raise("ServiceUnavailable")
                          /\ UNCHANGED <<r, ret, calls>>
                     ELSE IF found.index /= None
                     THEN /\ ret' = found.index
                          /\ pc' = "create_index_return"
                          /\ UNCHANGED <<r, calls, error>>
                     ELSE /\ r' = Operation("create_index",
                                            IndexRequest(name.s))
                          /\ calls' = [calls EXCEPT !.create_index = @ + 1]
                          /\ pc' = "create_index_poll"
                          /\ UNCHANGED <<ret, error>>
  /\ UNCHANGED <<indexes, index_endpoints, gcs_blobs, config_vars,
                 index_endpoint_name, contents_delta_uri, target_index,
                 index_endpoint, target_index_resource_name,
                 target_vertexai_index, upsert_vars, run_vars>>

\* The service's effect of a deploy request: the endpoint lists the deployed
\* index, and the index lists the reference to it.
WithDeployment(endpoints, request) ==
  [i \in 1..Len(endpoints) |->
     IF endpoints[i].name = request.index_endpoint
     THEN [endpoints[i] EXCEPT !.deployed_indexes =
             Append(@, DeployedIndex(request.deployed_index.id,
                                     request.deployed_index.index))]
     ELSE endpoints[i]]

WithDeploymentRef(all_indexes, request) ==
  [i \in 1..Len(all_indexes) |->
     IF all_indexes[i].name = request.deployed_index.index
     THEN [all_indexes[i] EXCEPT !.deployed_indexes =
             Append(@, DeployedIndexRef(request.index_endpoint,
                                        request.deployed_index.id))]
     ELSE all_indexes[i]]

\* The service finishes the pending operation: the resource exists from now on.
OperationSucceeds ==
  /\ r /= None
  /\ r.state = "Pending"
  /\ IF r.kind = "create_index"
     THEN LET new == NewIndex(IndexId(Len(indexes) + 1), r.request.display_name)
          IN /\ indexes' = Append(indexes, new)
             /\ r' = [r EXCEPT !.state = "Done", !.result = new]
             /\ UNCHANGED index_endpoints
     ELSE IF r.kind = "create_index_endpoint"
     THEN LET new == NewIndexEndpoint(EndpointId(Len(index_endpoints) + 1),
                                      r.request.display_name)
          IN /\ index_endpoints' = Append(index_endpoints, new)
             /\ r' = [r EXCEPT !.state = "Done", !.result = new]
             /\ UNCHANGED indexes
     ELSE /\ index_endpoints' = WithDeployment(index_endpoints, r.request)
          /\ indexes' = WithDeploymentRef(indexes, r.request)
          /\ r' = [r EXCEPT !.state = "Done",
                            !.result = GetByName(index_endpoints',
                                                 r.request.index_endpoint)]
  /\ UNCHANGED <<gcs_blobs, calls, config_vars, pc, error, index_name,
                 index_endpoint_name, contents_delta_uri, target_index,
                 index_endpoint, target_index_resource_name,
                 target_vertexai_index, ret, upsert_vars, run_vars>>

\* The service ends the pending operation with an error: nothing is created.
OperationFails ==
  /\ r /= None
  /\ r.state = "Pending"
  /\ r' = [r EXCEPT !.state = "Failed", !.error = "OperationError"]
  /\ UNCHANGED <<backend_vars, config_vars, pc, error, index_name,
                 index_endpoint_name, contents_delta_uri, target_index,
                 index_endpoint, target_index_resource_name,
                 target_vertexai_index, ret, upsert_vars, run_vars>>

OperationDoneOnSuccess(op) == op.state = "Done"

\* lines 548, 594: r.done()
OperationDone(op) == op.state /= "Pending"

OperationNeverRaises(op) == FALSE

\* lines 553, 599: r.result() raises the error of an operation that failed.
OperationRaises(op) == op.state = "Failed"

\* lines 545-556: the loop leaves when the operation is done (a sleep changes
\* nothing); r.result() returns the resource or raises the operation's error.
PollCreateIndex ==
  /\ pc = "create_index_poll"
  /\ OperationDone(r)
  /\ IF OperationRaises(r)
     THEN /\ Raise(r.error)
          /\ UNCHANGED ret
     ELSE /\ ret' = r.result
          /\ pc' = "create_index_return"
          /\ UNCHANGED error
  /\ UNCHANGED <<backend_vars, config_vars, index_name, index_endpoint_name,
                 contents_delta_uri, target_index, index_endpoint,
                 target_index_resource_name, target_vertexai_index, r,
                 upsert_vars, run_vars>>

\* lines 197, 207: the constructor keeps the index and derives the endpoint name.
AfterCreateIndex ==
  /\ pc = "create_index_return"
  /\ target_index' = ret
  /\ index_endpoint_name' = PyStr(index_name.s \o "_endpoint")
  /\ pc' = "create_index_endpoint"
  /\ UNCHANGED <<backend_vars, config_vars, error, index_name,
                 contents_delta_uri, index_endpoint,
                 target_index_resource_name, target_vertexai_index, r, ret,
                 upsert_vars, run_vars>>

\* lines 580-585
IndexEndpointRequest(name) ==
  [display_name |-> name, public_endpoint_enabled |-> TRUE]

\* lines 567-590: lookup, and the creation request when nothing is found; the
\* caller passes self.index_endpoint_name as the parameter.
CreateIndexEndpoint ==
  /\ pc = "create_index_endpoint"
  /\ LET name == SetIndexEndpointName(index_endpoint_name, index_name,
                                      index_endpoint_name)
     IN /\ index_endpoint_name' = name
        /\ IF name = None
           THEN /\ Raise("ResourceNotExistException")
                /\ UNCHANGED <<r, ret, calls>>
           ELSE LET found == GetIndexEndpoint(index_endpoints, name.s)
                IN IF found /= None
                   THEN /\ ret' = found
                        /\ pc' = "create_index_endpoint_return"
                        /\ UNCHANGED <<r, calls, error>>
                   ELSE /\ r' = Operation("create_index_endpoint",
                                          IndexEndpointRequest(name.s))
                        /\ calls' = [calls EXCEPT !.create_index_endpoint = @ + 1]
                        /\ pc' = "create_index_endpoint_poll"
                        /\ UNCHANGED <<ret, error>>
  /\ UNCHANGED <<indexes, index_endpoints, gcs_blobs, config_vars, index_name,
                 contents_delta_uri, target_index, index_endpoint,
                 target_index_resource_name, target_vertexai_index,
                 upsert_vars, run_vars>>

\* lines 592-605
PollCreateIndexEndpoint ==
  /\ pc = "create_index_endpoint_poll"
  /\ OperationDone(r)
  /\ IF OperationRaises(r)
     THEN /\ Raise(r.error)
          /\ UNCHANGED ret
     ELSE /\ ret' = r.result
          /\ pc' = "create_index_endpoint_return"
          /\ UNCHANGED error
  /\ UNCHANGED <<backend_vars, config_vars, index_name, index_endpoint_name,
                 contents_delta_uri, target_index, index_endpoint,
                 target_index_resource_name, target_vertexai_index, r,
                 upsert_vars, run_vars>>

\* The constructor going on to the deployment whatever deploy_new_index is.
AfterCreateIndexEndpointUngated ==
  /\ pc = "create_index_endpoint_return"
  /\ index_endpoint' = ret
  /\ pc' = "deploy_index"
  /\ UNCHANGED <<backend_vars, config_vars, error, index_name,
                 index_endpoint_name, contents_delta_uri, target_index,
                 target_index_resource_name, target_vertexai_index, r, ret,
                 upsert_vars, run_vars>>

\* lines 208-210: the constructor keeps the endpoint; the deployment follows
\* only when deploy_new_index is set.
AfterCreateIndexEndpoint ==
  /\ pc = "create_index_endpoint_return"
  /\ index_endpoint' = ret
  /\ pc' = IF args.deploy_new_index THEN "deploy_index" ELSE "resolve_target"
  /\ UNCHANGED <<backend_vars, config_vars, error, index_name,
                 index_endpoint_name, contents_delta_uri, target_index,
                 target_index_resource_name, target_vertexai_index, r, ret,
                 upsert_vars, run_vars>>

\* ------------------------------------------------------------ _deploy_index
DefaultMachineType == "e2-standard-16"
DefaultMinReplicas == 1
DefaultMaxReplicas == 1

\* lines 212-220
machine_type ==
  IF args.machine_type /= None THEN args.machine_type.s ELSE DefaultMachineType
min_replicas ==
  IF args.min_replicas /= None THEN args.min_replicas.n ELSE DefaultMinReplicas
max_replicas ==
  IF args.max_replicas /= None THEN args.max_replicas.n ELSE DefaultMaxReplicas

InvokeTime == "20240101_000000"

\* line 644 (the logical names of the model hold no '-')
DeployedIndexId(name) == name \o "_" \o InvokeTime

\* line 637: `x in deployed_indexes`; a str equals no DeployedIndex message.
InDeployedIndexes(x, deployed_indexes) ==
  \E i \in 1..Len(deployed_indexes) :
    /\ deployed_indexes[i].type = "str"
    /\ deployed_indexes[i].s = x

\* lines 645-656
DeployIndexConfig(index, deployed_index_id) ==
  [id |-> deployed_index_id,
   display_name |-> deployed_index_id,
   index |-> index.name,
   machine_type |-> machine_type,
   min_replica_count |-> min_replicas,
   max_replica_count |-> max_replicas]

\* lines 630-656: what _deploy_index does with `index` (line 630: the str
\* self.index_name) and the endpoint found: `index.name` is read at line 637
\* when the endpoint has deployed indexes and at line 648 otherwise.
DeployIndexOutcome(index, endpoint) ==
  IF ~HasAttr(endpoint, "deployed_indexes") THEN "AttributeError"
  ELSE IF endpoint.deployed_indexes /= <<>> /\ ~HasAttr(index, "name")
       THEN "AttributeError"
  ELSE IF /\ endpoint.deployed_indexes /= <<>>
          /\ InDeployedIndexes(index.name, endpoint.deployed_indexes)
       THEN "skip"
  ELSE IF ~HasAttr(index, "name") THEN "AttributeError"
  ELSE "deploy"

\* lines 222-228, 607-662: the constructor calls _deploy_index with
\* self.index_name and the endpoint's display name.  The polling loop of
\* lines 664-670 follows the request of line 659.
DeployIndex ==
  /\ pc = "deploy_index"
  /\ LET endpoint_name == SetIndexEndpointName(
                            PyStr(index_endpoint.display_name), index_name,
                            index_endpoint_name)
         index    == index_name
         endpoint == GetIndexEndpoint(index_endpoints, endpoint_name.s)
         outcome  == DeployIndexOutcome(index, endpoint)
     IN /\ index_endpoint_name' = endpoint_name
        /\ IF outcome = "AttributeError"
           THEN /\ Raise("AttributeError")
                /\ UNCHANGED <<r, ret, calls>>
           ELSE IF outcome = "skip"
           THEN /\ ret' = endpoint
                /\ pc' = "deploy_index_return"
                /\ UNCHANGED <<r, calls, error>>
           ELSE /\ r' = Operation("deploy_index",
                          [index_endpoint |-> endpoint.name,
                           deployed_index |->
                             DeployIndexConfig(index, DeployedIndexId(index_name.s))])
                /\ calls' = [calls EXCEPT !.deploy_index = @ + 1]
                /\ pc' = "deploy_index_poll"
                /\ UNCHANGED <<ret, error>>
  /\ UNCHANGED <<indexes, index_endpoints, gcs_blobs, config_vars, index_name,
                 contents_delta_uri, target_index, index_endpoint,
                 target_index_resource_name, target_vertexai_index,
                 upsert_vars, run_vars>>

\* ------------------------------------------- attaching to an existing index
\* line 231
TargetIndexNeverMissing(found) == FALSE

\* line 231
TargetIndexMissing(found) == found = None

\* lines 229-232, with _get_index's own check of the name (281, 326).
GetIndexOrFail ==
  /\ pc = "get_index"
  /\ IF index_name = None
     THEN /\ Raise("ResourceNotExistException")
          /\ UNCHANGED target_index
     ELSE LET found == GetIndex(indexes, index_endpoints, index_name.s)
          IN IF TargetIndexMissing(found)
             THEN /\ Raise("ValueError")
                  /\ UNCHANGED target_index
             ELSE /\ target_index' = found
                  /\ pc' = "resolve_target"
                  /\ UNCHANGED error
  /\ UNCHANGED <<backend_vars, config_vars, index_name, index_endpoint_name,
                 contents_delta_uri, index_endpoint,
                 target_index_resource_name, target_vertexai_index, r, ret,
                 upsert_vars, run_vars>>

\* lines 229-232 while a transport error strikes one remote call of the
\* lookup.
GetIndexOrFailUnderFault ==
  /\ pc = "get_index"
  /\ \E fault \in Faults :
       IF index_name = None
       THEN /\ Raise("ResourceNotExistException")
            /\ UNCHANGED target_index
       ELSE LET found == GetIndexUnder(indexes, index_endpoints,
                                       index_name.s, fault)
            IN IF found.raised
               THEN /\ Raise("ServiceUnavailable")
                    /\ UNCHANGED target_index
               ELSE IF TargetIndexMissing(found.index)
               THEN /\ Raise("ValueError")
                    /\ UNCHANGED target_index
               ELSE /\ target_index' = found.index
                    /\ pc' = "resolve_target"
                    /\ UNCHANGED error
  /\ UNCHANGED <<backend_vars, config_vars, index_name, index_endpoint_name,
                 contents_delta_uri, index_endpoint,
                 target_index_resource_name, target_vertexai_index, r, ret,
                 upsert_vars, run_vars>>

\* line 237: aip.MatchingEngineIndex(resource_name) fetches the index.
MatchingEngineIndex(resource_name) ==
  LET resource == GetByName(indexes, resource_name)
  IN IF resource = None THEN None
     ELSE [type |-> "MatchingEngineIndex",
           resource_name |-> resource.name,
           display_name |-> resource.display_name]

\* lines 234-244: the end of the constructor.
ResolveTarget ==
  /\ pc = "resolve_target"
  /\ IF ~HasAttr(target_index, "name")
     THEN /\ Raise("AttributeError")
          /\ UNCHANGED <<target_index_resource_name, target_vertexai_index>>
     ELSE IF MatchingEngineIndex(target_index.name) = None
     THEN /\ Raise("NotFound")
          /\ UNCHANGED <<target_index_resource_name, target_vertexai_index>>
     ELSE /\ target_index_resource_name' = PyStr(target_index.name)
          /\ target_vertexai_index' = MatchingEngineIndex(target_index.name)
          /\ pc' = "ready"
          /\ UNCHANGED error
  /\ UNCHANGED <<backend_vars, config_vars, index_name, index_endpoint_name,
                 contents_delta_uri, target_index, index_endpoint, r, ret,
                 upsert_vars, run_vars>>

\* -------------------------------------------------------------- upsert_data
\* lines 684, 690: the namespace entries of every index of the manifest.
NamespaceMetas ==
  IF "indexes" \in DOMAIN vdf_meta
  THEN Flatten([i \in 1..Len(vdf_meta.indexes) |->
                  vdf_meta.indexes[i].namespaces])
  ELSE <<>>

\* vdf_import_cls.py lines 107-122: the first vector column of the namespace.
VectorColumnName(namespace_meta) ==
  IF "vector_columns" \notin DOMAIN namespace_meta
  THEN "vector"
  ELSE namespace_meta.vector_columns[1]

\* line 704: the parquet files under the namespace's data_path, each given
\* by its number of rows.
ParquetFiles(ns) == NamespaceMetas[ns].files

\* lines 709, 716: row number i (from 0) of a file, as json.loads gives it;
\* ids are unique in the manifest.
Row(ns, f, i) ==
  [id |-> 100 * ns + 10 * f + i,
   color |-> PyStr(IF i % 2 = 0 THEN "red" ELSE "blue"),
   count |-> PyInt(42 + i),
   flag |-> PyBool(i % 2 = 0),
   price |-> PyInt(3 + i),
   cost |-> PyInt(7 + i),
   doc_id |-> 1000 + 100 * ns + 10 * f + i,
   embedding |-> <<PyInt(i), PyInt(1)>>]

\* line 709: the columns of the frame read from a file.
FrameColumns(ns, f) == DOMAIN Row(ns, f, 0)

\* row[col]; ProcessRow raises KeyError for a column the row does not have.
RowValue(row, col) == IF col \in DOMAIN row THEN row[col] ELSE None

\* entry.get(key) of a restrict entry, as `if entry.get(key):` takes it.
HasColumns(entry, key) == key \in DOMAIN entry /\ entry[key] /= <<>>

\* The columns a row is read at, lines 739-770.
ColumnsRead ==
  (IF Truthy(list_restrict_entries)
   THEN UNION {{list_restrict_entries.items[k][key][j] :
                  j \in 1..Len(list_restrict_entries.items[k][key])} :
                 <<k, key>> \in
                   {<<k, key>> \in (1..Len(list_restrict_entries.items))
                                     \X {"allow_list", "deny_list"} :
                      HasColumns(list_restrict_entries.items[k], key)}}
   ELSE {})
  \cup
  (IF Truthy(list_of_numeric_entries)
   THEN {list_of_numeric_entries.items[k].namespace :
           k \in 1..Len(list_of_numeric_entries.items)}
   ELSE {})
  \cup
  (IF Truthy(args.crowding_tag) THEN {args.crowding_tag.s} ELSE {})

\* lines 719-721 and 739-770: a column read that the row does not have.
MissingColumn(row, vector_column_name) ==
  \/ vector_column_name \notin DOMAIN row
  \/ \E col \in ColumnsRead : col \notin DOMAIN row

\* lines 719-721: the vector as floats.
FeatureVector(row, vector_column_name) ==
  IF vector_column_name \in DOMAIN row
  THEN [j \in 1..Len(row[vector_column_name]) |->
          PyFloat(row[vector_column_name][j].n)]
  ELSE <<>>

\* An entry is appended only when it carries allow or deny values.
AppendRestrictEntryWithValues(restrict_entry_list, restrict_entry) ==
  IF DOMAIN restrict_entry = {"namespace"}
  THEN restrict_entry_list
  ELSE Append(restrict_entry_list, restrict_entry)

\* line 748
AppendRestrictEntry(restrict_entry_list, restrict_entry) ==
  Append(restrict_entry_list, restrict_entry)

\* lines 732-748: the loop over the entries from entry k on. allow_values
\* and deny_values are set empty once per row (724-725), before the loop.
RECURSIVE RestrictEntryList(_, _, _, _, _, _)
RestrictEntryList(row, entries, k, allow_values, deny_values, restrict_entry_list) ==
  IF k > Len(entries) THEN restrict_entry_list
  ELSE
    LET entry == entries[k]
        allows == IF HasColumns(entry, "allow_list")
                  THEN allow_values \o
                       [j \in 1..Len(entry.allow_list) |->
                          RowValue(row, entry.allow_list[j])]
                  ELSE allow_values
        denies == IF HasColumns(entry, "deny_list")
                  THEN deny_values \o
                       [j \in 1..Len(entry.deny_list) |->
                          RowValue(row, entry.deny_list[j])]
                  ELSE deny_values
        restrict_entry ==
          [namespace |-> entry.namespace]
          @@ (IF HasColumns(entry, "allow_list")
              THEN "allow_list" :> [j \in 1..Len(allows) |-> str(allows[j])]
              ELSE <<>>)
          @@ (IF HasColumns(entry, "deny_list")
              THEN "deny_list" :> [j \in 1..Len(denies) |-> str(denies[j])]
              ELSE <<>>)
    IN RestrictEntryList(row, entries, k + 1, allows, denies,
                         AppendRestrictEntry(restrict_entry_list,
                                             restrict_entry))

\* lines 722-748
Restricts(row) ==
  IF Truthy(list_restrict_entries)
  THEN RestrictEntryList(row, list_restrict_entries.items, 1,
                         <<>>, <<>>, <<>>)
  ELSE <<>>

\* lines 753-762: the column read is the one named like the namespace.
NumericRestrictEntry(row, entry) ==
  [namespace |-> entry.namespace]
  @@ (entry.data_type :> RowValue(row, entry.namespace))

\* lines 750-762
NumericRestricts(row) ==
  IF Truthy(list_of_numeric_entries)
  THEN [k \in 1..Len(list_of_numeric_entries.items) |->
          NumericRestrictEntry(row, list_of_numeric_entries.items[k])]
  ELSE <<>>

\* line 782: the message field takes the value in the field's type; a float
\* or double field takes an int as the float of the same value.
Marshal(field, v) ==
  IF field \in {"value_float", "value_double"} /\ v.type = "int"
  THEN PyFloat(v.n) ELSE v

\* line 782: the NumericRestriction built from the entry.
NumericRestriction(entry) ==
  LET field == CHOOSE key \in DOMAIN entry : key /= "namespace"
  IN [namespace |-> entry.namespace] @@ (field :> Marshal(field, entry[field]))

\* lines 726, 768-770
CrowdingTagVal(row) ==
  IF Truthy(args.crowding_tag)
  THEN PyStr(str(RowValue(row, args.crowding_tag.s)))
  ELSE None

\* The attribute is the str of whatever value is given.
CrowdingTagOfStr(crowding_attribute) ==
  [crowding_attribute |-> str(crowding_attribute)]

\* lines 783-785: a string field given None stays unset and reads empty.
CrowdingTag(crowding_attribute) ==
  [crowding_attribute |->
     IF crowding_attribute = None THEN "" ELSE crowding_attribute.s]

\* lines 710, 777-787: the datapoint built from a row, its id the str of the
\* row's id.
Datapoint(row, vector_column_name) ==
  [datapoint_id |-> ToString(row.id),
   feature_vector |-> FeatureVector(row, vector_column_name),
   restricts |-> Restricts(row),
   numeric_restricts |->
     [k \in 1..Len(NumericRestricts(row)) |->
        NumericRestriction(NumericRestricts(row)[k])],
   crowding_tag |-> CrowdingTag(CrowdingTagVal(row))]

\* line 788: idx is the row's label in the frame, its position in the file.
ShouldUpsert(i, size) == i % size = 0

\* A trailing upsert whatever the payload holds.
TrailingUpsertAlways(payload) == Len(payload) >= 0

\* line 796
TrailingUpsertNeeded(payload) == Len(payload) > 0

\* line 777
AppendDatapoint(payload, datapoint) == Append(payload, datapoint)

\* The payload is kept after the upsert.
PayloadKeptAfterUpsert(payload) == payload

\* line 794
PayloadAfterUpsert(payload) == <<>>

\* upsert_datapoints answers, or raises one of two kinds of error.
UpsertOutcomes == {"OK", "TransientError", "FatalError"}

\* The request addressed by the index's display name.
UpsertRequestByDisplayName(payload, outcome) ==
  [index |-> target_vertexai_index.display_name,
   datapoints |-> payload,
   outcome |-> outcome,
   namespace |-> ns_i,
   file |-> file_i]

\* lines 789-792, 798-801; namespace and file record where the request was
\* built.
UpsertRequest(payload, outcome) ==
  [index |-> target_vertexai_index.resource_name,
   datapoints |-> payload,
   outcome |-> outcome,
   namespace |-> ns_i,
   file |-> file_i]

\* The caller invokes upsert_data on the constructed importer (line 682).
UpsertData ==
  /\ pc = "ready"
  /\ IF "indexes" \notin DOMAIN vdf_meta
     THEN \* line 684: self.vdf_meta["indexes"]
          /\ Raise("KeyError")
          /\ UNCHANGED ns_i
     ELSE /\ pc' = "namespace_loop"
          /\ ns_i' = 1
          /\ UNCHANGED error
  /\ UNCHANGED <<backend_vars, config_vars, self_vars, file_i, idx,
                 insert_datapoints_payload, total_ids, upsert_requests,
                 reported, run_vars>>

\* lines 690-706
EnterNamespace ==
  /\ pc = "namespace_loop"
  /\ ns_i <= Len(NamespaceMetas)
  /\ total_ids' = <<>>
  /\ file_i' = 1
  /\ pc' = "file_loop"
  /\ UNCHANGED <<backend_vars, config_vars, error, self_vars, ns_i, idx,
                 insert_datapoints_payload, upsert_requests, reported,
                 run_vars>>

\* lines 707-713
EnterFile ==
  /\ pc = "file_loop"
  /\ file_i <= Len(ParquetFiles(ns_i))
  /\ IF "id" \notin FrameColumns(ns_i, file_i)
     THEN \* line 710: df["id"]
          /\ Raise("KeyError")
          /\ UNCHANGED <<insert_datapoints_payload, idx>>
     ELSE /\ insert_datapoints_payload' = <<>>
          /\ idx' = 0
          /\ pc' = "row_loop"
          /\ UNCHANGED error
  /\ UNCHANGED <<backend_vars, config_vars, self_vars, ns_i, file_i,
                 total_ids, upsert_requests, reported, run_vars>>

\* lines 715-794: one row; the exception of a failed upsert leaves upsert_data.
ProcessRow ==
  /\ pc = "row_loop"
  /\ idx < ParquetFiles(ns_i)[file_i]
  /\ LET row     == Row(ns_i, file_i, idx)
         vector_column_name == VectorColumnName(NamespaceMetas[ns_i])
         payload == AppendDatapoint(insert_datapoints_payload,
                                    Datapoint(row, vector_column_name))
     IN /\ total_ids' = Append(total_ids, ToString(row.id))
        /\ IF MissingColumn(row, vector_column_name)
           THEN /\ Raise("KeyError")
                /\ UNCHANGED <<insert_datapoints_payload, idx, upsert_requests>>
           ELSE IF ShouldUpsert(idx, batch_size)
           THEN \E outcome \in UpsertOutcomes :
                  /\ upsert_requests' =
                       Append(upsert_requests, UpsertRequest(payload, outcome))
                  /\ IF outcome = "OK"
                     THEN /\ insert_datapoints_payload' = PayloadAfterUpsert(payload)
                          /\ idx' = idx + 1
                          /\ UNCHANGED <<pc, error>>
                     ELSE /\ Raise(outcome)
                          /\ insert_datapoints_payload' = payload
                          /\ UNCHANGED idx
           ELSE /\ insert_datapoints_payload' = payload
                /\ idx' = idx + 1
                /\ UNCHANGED <<pc, error, upsert_requests>>
  /\ UNCHANGED <<backend_vars, config_vars, self_vars, ns_i, file_i, reported,
                 run_vars>>

\* lines 796-803: the end of a file.
EndOfFile ==
  /\ pc = "row_loop"
  /\ idx = ParquetFiles(ns_i)[file_i]
  /\ IF TrailingUpsertNeeded(insert_datapoints_payload)
     THEN \E outcome \in UpsertOutcomes :
            /\ upsert_requests' =
                 Append(upsert_requests,
                        UpsertRequest(insert_datapoints_payload, outcome))
            /\ IF outcome = "OK"
               THEN /\ file_i' = file_i + 1
                    /\ pc' = "file_loop"
                    /\ UNCHANGED error
               ELSE /\ Raise(outcome)
                    /\ UNCHANGED file_i
     ELSE /\ file_i' = file_i + 1
          /\ pc' = "file_loop"
          /\ UNCHANGED <<error, upsert_requests>>
  /\ UNCHANGED <<backend_vars, config_vars, self_vars, ns_i, idx,
                 insert_datapoints_payload, total_ids, reported, run_vars>>

\* line 707: the files of the namespace are exhausted.
ExitNamespace ==
  /\ pc = "file_loop"
  /\ file_i > Len(ParquetFiles(ns_i))
  /\ ns_i' = ns_i + 1
  /\ pc' = "namespace_loop"
  /\ UNCHANGED <<backend_vars, config_vars, error, self_vars, file_i, idx,
                 insert_datapoints_payload, total_ids, upsert_requests,
                 reported, run_vars>>

\* lines 805-808: the count printed is len(total_ids).
Report ==
  /\ pc = "namespace_loop"
  /\ ns_i > Len(NamespaceMetas)
  /\ reported' = PyInt(Len(total_ids))
  /\ pc' = "done"
  /\ UNCHANGED <<backend_vars, config_vars, error, self_vars, ns_i, file_i,
                 idx, insert_datapoints_payload, total_ids, upsert_requests,
                 run_vars>>

\* ------------------------------------------------------------ cancellation
\* The places where the run waits: time.sleep of the two poll loops (550,
\* 596) and the blocking reads and upsert calls of the row loops (707-803).
SuspensionPoints ==
  {"create_index_poll", "create_index_endpoint_poll", "namespace_loop",
   "file_loop", "row_loop"}

\* The run is interrupted from outside while it waits: KeyboardInterrupt is
\* raised there; no except clause of the importer names it (293, 322, 354,
\* 408, 601, 674 catch Exception or ResourceNotExistException) and there is
\* no finally block, so it leaves the run.
Cancel ==
  /\ pc \in SuspensionPoints
  /\ Raise("KeyboardInterrupt")
  /\ UNCHANGED <<backend_vars, config_vars, self_vars, upsert_vars, run_vars>>

\* -------------------------------------------------------------- second run
\* The importer is run again, with the same arguments, against the service as
\* the first run left it.
Rerun ==
  /\ pc = "ready"
  /\ run_no = 1
  /\ run_no' = 2
  /\ first_run' = [target_index |-> target_index,
                   index_endpoint |-> index_endpoint,
                   calls |-> calls]
  /\ pc' = "init"
  /\ index_name' = None
  /\ index_endpoint_name' = None
  /\ contents_delta_uri' = None
  /\ target_index' = None
  /\ index_endpoint' = None
  /\ target_index_resource_name' = None
  /\ target_vertexai_index' = None
  /\ r' = None
  /\ ret' = None
  /\ UNCHANGED <<backend_vars, config_vars, error, upsert_vars, other>>

\* ------------------------------------------------- a second importer
\* A second importer, constructed with the same arguments against the same
\* service while the first one runs, followed through its index reconcile.
OtherRaise(exc) == [other EXCEPT !.pc = "failed", !.error = exc]

\* lines 51-206, as Construct.
OtherConstruct ==
  /\ other.pc = "init"
  /\ IF IndexesMissing
     THEN other' = OtherRaise("Exception") /\ UNCHANGED gcs_blobs
     ELSE IF FilterListUnbound
     THEN other' = OtherRaise("UnboundLocalError") /\ UNCHANGED gcs_blobs
     ELSE IF args.create_new_index
     THEN LET name == IF args.target_index_name = None
                      THEN PyStr("my_vvs_index_" \o UniqueId)
                      ELSE args.target_index_name
          IN IF BucketMissing \/ DimensionsMissing
             THEN /\ other' = [OtherRaise("ValueError") EXCEPT
                                 !.index_name = name]
                  /\ UNCHANGED gcs_blobs
             ELSE /\ other' = [other EXCEPT
                                 !.index_name = name,
                                 !.contents_delta_uri =
                                   PyStr("gs://" \o args.gcs_bucket.s
                                                \o "/init_index"),
                                 !.pc = "create_index"]
                  /\ gcs_blobs' = gcs_blobs \cup {InitEmbeddingBlob}
     ELSE /\ other' = [other EXCEPT !.index_name = args.target_index_name,
                                    !.pc = "get_index"]
          /\ UNCHANGED gcs_blobs
  /\ UNCHANGED <<indexes, index_endpoints, calls, config_vars, pc, error,
                 self_vars, upsert_vars, run_no, first_run>>

\* lines 505-543, as CreateIndex.
OtherCreateIndex ==
  /\ other.pc = "create_index"
  /\ LET name == IF other.index_name /= None
                 THEN args.target_index_name ELSE other.index_name
     IN IF name = None
        THEN /\ other' = [OtherRaise("ResourceNotExistException") EXCEPT
                            !.index_name = name]
             /\ UNCHANGED calls
        ELSE LET index == GetIndex(indexes, index_endpoints, name.s)
             IN IF index /= None
                THEN /\ other' = [other EXCEPT !.index_name = name,
                                               !.ret = index,
                                               !.pc = "create_index_return"]
                     /\ UNCHANGED calls
                ELSE /\ other' =
                          [other EXCEPT
                             !.index_name = name,
                             !.r = Operation("create_index",
                                     [IndexRequest(name.s) EXCEPT
                                        !.contents_delta_uri =
                                          other.contents_delta_uri]),
                             !.pc = "create_index_poll"]
                     /\ calls' = [calls EXCEPT !.create_index = @ + 1]
  /\ UNCHANGED <<indexes, index_endpoints, gcs_blobs, config_vars, pc, error,
                 self_vars, upsert_vars, run_no, first_run>>

\* The service finishes the second importer's operation.
OtherOperationSucceeds ==
  /\ other.r /= None
  /\ other.r.state = "Pending"
  /\ LET new == NewIndex(IndexId(Len(indexes) + 1),
                         other.r.request.display_name)
     IN /\ indexes' = Append(indexes, new)
        /\ other' = [other EXCEPT !.r.state = "Done", !.r.result = new]
  /\ UNCHANGED <<index_endpoints, gcs_blobs, calls, config_vars, pc, error,
                 self_vars, upsert_vars, run_no, first_run>>

\* The service ends the second importer's operation with an error.
OtherOperationFails ==
  /\ other.r /= None
  /\ other.r.state = "Pending"
  /\ other' = [other EXCEPT !.r.state = "Failed",
                            !.r.error = "OperationError"]
  /\ UNCHANGED <<backend_vars, config_vars, pc, error, self_vars,
                 upsert_vars, run_no, first_run>>

\* lines 545-556, as PollCreateIndex.
OtherPollCreateIndex ==
  /\ other.pc = "create_index_poll"
  /\ OperationDone(other.r)
  /\ IF OperationRaises(other.r)
     THEN other' = OtherRaise(other.r.error)
     ELSE other' = [other EXCEPT !.ret = other.r.result,
                                 !.pc = "create_index_return"]
  /\ UNCHANGED <<backend_vars, config_vars, pc, error, self_vars,
                 upsert_vars, run_no, first_run>>

\* ------------------------------------------------------------------ inputs
\* The service before the run.
EmptyService == [indexes |-> <<>>, index_endpoints |-> <<>>]

IndexOnly ==
  [indexes |-> <<NewIndex(IndexId(1), "demo")>>, index_endpoints |-> <<>>]

IndexAndEndpoint ==
  [indexes |-> <<NewIndex(IndexId(1), "demo")>>,
   index_endpoints |-> <<NewIndexEndpoint(EndpointId(1), "demo_endpoint")>>]

Deployed ==
  [indexes |->
     <<[NewIndex(IndexId(1), "demo") EXCEPT !.deployed_indexes =
          <<DeployedIndexRef(EndpointId(1), "demo_deployed")>>]>>,
   index_endpoints |->
     <<[NewIndexEndpoint(EndpointId(1), "demo_endpoint") EXCEPT !.deployed_indexes =
          <<DeployedIndex("demo_deployed", IndexId(1))>>]>>]

\* The logical name is only the alias of a deployment of another index.
AliasOnly ==
  [indexes |->
     <<[NewIndex(IndexId(1), "other") EXCEPT !.deployed_indexes =
          <<DeployedIndexRef(EndpointId(1), "demo")>>]>>,
   index_endpoints |->
     <<[NewIndexEndpoint(EndpointId(1), "other_endpoint") EXCEPT !.deployed_indexes =
          <<DeployedIndex("demo", IndexId(1))>>]>>]

TwoSameName ==
  [indexes |-> <<NewIndex(IndexId(1), "demo"), NewIndex(IndexId(2), "demo")>>,
   index_endpoints |-> <<>>]

Services ==
  {EmptyService, IndexOnly, IndexAndEndpoint, Deployed, AliasOnly, TwoSameName}

NamespaceMeta(namespace, files) ==
  [namespace |-> namespace, data_path |-> namespace,
   vector_columns |-> <<"embedding">>, files |-> files]

Manifest(namespaces) ==
  [id_column |-> "id",
   indexes |-> <<[index_name |-> "demo", namespaces |-> namespaces]>>]

\* Index `demo`, one namespace `ns1` of two files of 3 rows each.
ScenarioManifest == Manifest(<<NamespaceMeta("ns1", <<3, 3>>)>>)

FileLists == UNION {[1..n -> 0..MaxRows] : n \in 1..MaxFiles}

\* One namespace holding all the files, or two sharing them.
Manifests ==
  {Manifest(<<NamespaceMeta("ns1", fs)>>) : fs \in FileLists}
  \cup
  {Manifest(<<NamespaceMeta("ns1", SubSeq(fs, 1, k)),
              NamespaceMeta("ns2", SubSeq(fs, k + 1, Len(fs)))>>) :
     fs \in {x \in FileLists : Len(x) > 1}, k \in 1..(MaxFiles - 1)}

Args(create, deploy, name, bucket, dimensions, size) ==
  [create_new_index |-> create, deploy_new_index |-> deploy,
   target_index_name |-> name, gcs_bucket |-> bucket,
   dimensions |-> dimensions, batch_size |-> size,
   machine_type |-> None, min_replicas |-> PyInt(2), max_replicas |-> PyInt(3),
   filter_restricts |-> None, numeric_restricts |-> None,
   crowding_tag |-> None]

\* Configured namespace filters: allow and deny columns per namespace.
ColorFilter ==
  [namespace |-> "color", allow_list |-> PyList(<<"color">>),
   deny_list |-> PyList(<<"flag">>)]

CountFilter ==
  [namespace |-> "count", allow_list |-> PyList(<<"count", "flag">>)]

BareFilter == [namespace |-> "bare"]

EmptyListsFilter ==
  [namespace |-> "empty", allow_list |-> PyList(<<>>),
   deny_list |-> PyList(<<>>)]

FilterConfigs ==
  {None, PyList(<<>>), PyList(<<ColorFilter>>),
   PyList(<<ColorFilter, CountFilter>>),
   PyList(<<CountFilter, BareFilter, EmptyListsFilter, ColorFilter>>)}

\* Configured numeric filters.
NumericFilter(namespace, data_type, source_column) ==
  [namespace |-> namespace, data_type |-> data_type,
   source_column |-> source_column]

NumericConfigs ==
  {None,
   PyList(<<NumericFilter("price", "value_float", "price")>>),
   PyList(<<NumericFilter("price", "value_float", "cost"),
            NumericFilter("count", "value_int", "count")>>),
   PyList(<<NumericFilter("budget", "value_int", "cost")>>)}

CrowdingConfigs == {None, PyStr("color"), PyStr("count")}

\* Runs that differ in the filters configured: two rows of one file go into
\* an index that exists.
FilterInputs ==
  {[args |-> [Args(FALSE, FALSE, PyStr("demo"), None, None, None) EXCEPT
                !.filter_restricts = fr, !.numeric_restricts = nr,
                !.crowding_tag = ct],
    service |-> IndexOnly,
    vdf_meta |-> Manifest(<<NamespaceMeta("ns1", <<2>>)>>)] :
     fr \in FilterConfigs, nr \in NumericConfigs, ct \in CrowdingConfigs}

\* A manifest file without the indexes key.
NoIndexesManifest == [id_column |-> "id", version |-> "0.1"]

\* Runs over a manifest without indexes, attaching or creating.
ManifestInputs ==
  {[args |-> Args(c, FALSE, PyStr("demo"), PyStr("bucket"), PyInt(2), None),
    service |-> s, vdf_meta |-> NoIndexesManifest] :
     c \in BOOLEAN, s \in {EmptyService, IndexOnly}}

\* A namespace filter, a numeric filter and a crowding column naming a
\* column the rows do not have.
TagFilter == [namespace |-> "tag", allow_list |-> PyList(<<"tag">>)]

BudgetSourceFilter == NumericFilter("price", "value_float", "budget")

\* Runs that differ in the columns the manifest and the arguments name: two
\* rows of one file go into an index that exists.
SchemaInputs ==
  {[args |-> Args(FALSE, FALSE, PyStr("demo"), None, None, None),
    service |-> IndexOnly,
    vdf_meta |->
      [Manifest(<<[NamespaceMeta("ns1", <<2>>) EXCEPT !.vector_columns = vc]>>)
         EXCEPT !.id_column = idc]] :
     idc \in {"id", "doc_id", "key"},
     vc \in {<<"embedding">>, <<"vec">>, <<"embedding", "vec">>}}
  \cup
  {[args |-> [Args(FALSE, FALSE, PyStr("demo"), None, None, None) EXCEPT
                !.filter_restricts = fr, !.numeric_restricts = nr,
                !.crowding_tag = ct],
    service |-> IndexOnly,
    vdf_meta |-> Manifest(<<NamespaceMeta("ns1", <<2>>)>>)] :
     fr \in {None, PyList(<<TagFilter>>)},
     nr \in {None, PyList(<<BudgetSourceFilter>>)},
     ct \in {None, PyStr("tag")}}

\* Runs that differ in what is reconciled, over the scenario's manifest.
ReconcileInputs ==
  {[args |-> Args(c, d, n, b, dim, PyInt(4)), service |-> s,
    vdf_meta |-> ScenarioManifest] :
     c \in BOOLEAN, d \in BOOLEAN,
     n \in {None, PyStr("demo"), PyStr(IndexId(1))},
     b \in {None, PyStr("bucket")}, dim \in {None, PyInt(2)},
     s \in Services}

\* Runs that differ in what is ingested, into an index that exists.
IngestInputs ==
  {[args |-> Args(FALSE, FALSE, PyStr("demo"), None, None, size),
    service |-> IndexOnly, vdf_meta |-> m] :
     size \in {None} \cup {PyInt(b) : b \in 1..MaxBatch}, m \in Manifests}

InitWith(input) ==
  /\ indexes = input.service.indexes
  /\ index_endpoints = input.service.index_endpoints
  /\ gcs_blobs = {}
  /\ calls = [create_index |-> 0, create_index_endpoint |-> 0, deploy_index |-> 0]
  /\ args = input.args
  /\ vdf_meta = input.vdf_meta
  /\ pc = "init"
  /\ error = NoError
  /\ index_name = None
  /\ index_endpoint_name = None
  /\ contents_delta_uri = None
  /\ target_index = None
  /\ index_endpoint = None
  /\ target_index_resource_name = None
  /\ target_vertexai_index = None
  /\ r = None
  /\ ret = None
  /\ ns_i = 0
  /\ file_i = 0
  /\ idx = 0
  /\ insert_datapoints_payload = <<>>
  /\ total_ids = <<>>
  /\ upsert_requests = <<>>
  /\ reported = None
  /\ run_no = 1
  /\ first_run = None
  /\ other = [pc |-> "init", error |-> NoError, index_name |-> None,
              contents_delta_uri |-> None, r |-> None, ret |-> None]

Init ==
  \E input \in ReconcileInputs \cup IngestInputs \cup FilterInputs
                \cup ManifestInputs \cup SchemaInputs :
    InitWith(input)

InitReconcile == \E input \in ReconcileInputs : InitWith(input)

\* ------------------------------------------------------------ specifications
ConstructorNext ==
  \/ Construct
  \/ CreateIndex
  \/ OperationSucceeds
  \/ OperationFails
  \/ PollCreateIndex
  \/ AfterCreateIndex
  \/ CreateIndexEndpoint
  \/ PollCreateIndexEndpoint
  \/ AfterCreateIndexEndpoint
  \/ DeployIndex
  \/ GetIndexOrFail
  \/ ResolveTarget

UpsertNext ==
  \/ UpsertData
  \/ EnterNamespace
  \/ EnterFile
  \/ ProcessRow
  \/ EndOfFile
  \/ ExitNamespace
  \/ Report

\* One run of the importer: the constructor, then upsert_data.
Next == ConstructorNext \/ UpsertNext

Spec == Init /\ [][Next]_vars

\* The constructor run twice in sequence against the same service.
NextTwice == ConstructorNext \/ Rerun

SpecTwice == InitReconcile /\ [][NextTwice]_vars

\* Two importers constructed at the same time for the same index name, each
\* followed through its index reconcile; their steps interleave freely.
PairInputs ==
  {[args |-> Args(TRUE, FALSE, n, PyStr("bucket"), PyInt(2), None),
    service |-> s, vdf_meta |-> ScenarioManifest] :
     n \in {PyStr("demo"), PyStr("other"), PyStr(IndexId(1))},
     s \in {EmptyService, IndexOnly, AliasOnly}}

InitPair == \E input \in PairInputs : InitWith(input)

NextPair ==
  \/ Construct
  \/ CreateIndex
  \/ OperationSucceeds
  \/ OperationFails
  \/ PollCreateIndex
  \/ OtherConstruct
  \/ OtherCreateIndex
  \/ OtherOperationSucceeds
  \/ OtherOperationFails
  \/ OtherPollCreateIndex

SpecPair == InitPair /\ [][NextPair]_vars

\* One run of the importer that may be interrupted from outside.
NextCancel == Next \/ Cancel

SpecCancel == Init /\ [][NextCancel]_vars

\* The constructor while transport errors may strike its lookups.
NextFault ==
  \/ ConstructorNext
  \/ CreateIndexUnderFault
  \/ GetIndexOrFailUnderFault

SpecFault == InitReconcile /\ [][NextFault]_vars

\* The constructor alone, as the one thread that runs it: a poll loop whose
\* operation is done is left (lines 545-553, 592-599); when the service ends
\* an operation is up to the service.
SpecPoll ==
  /\ InitReconcile
  /\ [][ConstructorNext]_vars
  /\ WF_vars(PollCreateIndex)
  /\ WF_vars(PollCreateIndexEndpoint)

\* ------------------------------------------------------------------ claims
Last(seq) == seq[Len(seq)]

Ceil(a, b) == (a + b - 1) \div b

UpsertPcs == {"namespace_loop", "file_loop", "row_loop", "done"}

\* The run left upsert_data by the exception of a failed upsert.
Aborted ==
  /\ pc = "failed"
  /\ upsert_requests /= <<>>
  /\ Last(upsert_requests).outcome /= "OK"

AllUpsertsOK ==
  \A i \in 1..Len(upsert_requests) : upsert_requests[i].outcome = "OK"

BatchSizes ==
  [i \in 1..Len(upsert_requests) |-> Len(upsert_requests[i].datapoints)]

\* The requests built while file f of namespace ns was read.
FileRequests(ns, f) ==
  SelectSeq(upsert_requests, LAMBDA q : q.namespace = ns /\ q.file = f)

FileBatches(ns, f) ==
  LET qs == FileRequests(ns, f)
  IN Flatten([i \in 1..Len(qs) |-> qs[i].datapoints])

FileDatapoints(ns, f) ==
  [i \in 1..ParquetFiles(ns)[f] |->
     Datapoint(Row(ns, f, i - 1), VectorColumnName(NamespaceMetas[ns]))]

\* upsert_data is past file f of namespace ns.
FileComplete(ns, f) ==
  \/ pc = "done"
  \/ /\ pc \in {"namespace_loop", "file_loop", "row_loop"}
     /\ \/ ns < ns_i
        \/ ns = ns_i /\ pc /= "namespace_loop" /\ f < file_i

ManifestFiles ==
  {nf \in (1..Len(NamespaceMetas)) \X (1..MaxFiles + 1) :
     nf[2] <= Len(ParquetFiles(nf[1]))}

\* The endpoint _deploy_index looks up, and whether it already lists a
\* deployment of the target index.
DeployEndpoint == GetIndexEndpoint(index_endpoints, index_endpoint.display_name)

AlreadyDeployed ==
  /\ DeployEndpoint /= None
  /\ \E i \in 1..Len(DeployEndpoint.deployed_indexes) :
       DeployEndpoint.deployed_indexes[i].index = target_index.name

\* The service as it was before the first run: resources are appended, one
\* per creation call of a run whose operations all succeeded.
ServiceBefore ==
  [indexes |-> SubSeq(indexes, 1, Len(indexes) - calls.create_index),
   index_endpoints |->
     SubSeq(index_endpoints, 1,
            Len(index_endpoints) - calls.create_index_endpoint)]

\* C1: the constructor's index and endpoint reconcile, run twice in sequence
\* for the same name against the same service, resolve the same index and the
\* same endpoint both times; the second run issues no creation request, and
\* in total exactly one creation call is issued for a resource the service
\* did not hold before (none for one it held).
C1_IdempotentReconcile ==
  (run_no = 2 /\ pc = "ready" /\ args.create_new_index) =>
    /\ target_index.name = first_run.target_index.name
    /\ index_endpoint.name = first_run.index_endpoint.name
    /\ calls = first_run.calls
    /\ calls.create_index =
         IF GetIndex(ServiceBefore.indexes, ServiceBefore.index_endpoints,
                     index_name.s) = None
         THEN 1 ELSE 0
    /\ calls.create_index_endpoint =
         IF GetIndexEndpoint(ServiceBefore.index_endpoints,
                             index_endpoint_name.s) = None
         THEN 1 ELSE 0

\* C1 witness: both runs ended, the first having created index and endpoint.
C1_Witness ==
  /\ run_no = 2
  /\ pc = "ready"
  /\ args.create_new_index
  /\ calls.create_index = 1
  /\ calls.create_index_endpoint = 1

\* C2: when the endpoint already lists a deployment of the target index,
\* _deploy_index issues no deploy request and returns the endpoint without
\* raising.
C2_DeploymentSkip ==
  [][(pc = "deploy_index" /\ AlreadyDeployed) =>
       /\ error' = NoError
       /\ calls' = calls
       /\ pc' = "deploy_index_return"
       /\ ret' = DeployEndpoint]_vars

\* C3: when the target index is not deployed on the endpoint, _deploy_index
\* submits exactly one deploy request binding the index's resource id to the
\* endpoint with the configured replica range and machine type, and polls it.
C3_DeploymentCreateIfAbsent ==
  [][(pc = "deploy_index" /\ ~AlreadyDeployed) =>
       /\ calls'.deploy_index = calls.deploy_index + 1
       /\ pc' = "deploy_index_poll"
       /\ r'.kind = "deploy_index"
       /\ r'.request.index_endpoint = DeployEndpoint.name
       /\ r'.request.deployed_index.index = target_index.name
       /\ r'.request.deployed_index.min_replica_count = min_replicas
       /\ r'.request.deployed_index.max_replica_count = max_replicas
       /\ r'.request.deployed_index.machine_type = machine_type]_vars

\* C4: a file of R rows is upserted in exactly ceil(R / batch_size) batches,
\* and every batch but the last of a file holds batch_size datapoints.
C4_BatchCount ==
  (pc = "done" /\ AllUpsertsOK) =>
    \A nf \in ManifestFiles :
      LET qs == FileRequests(nf[1], nf[2])
      IN /\ Len(qs) = Ceil(ParquetFiles(nf[1])[nf[2]], batch_size)
         /\ \A i \in 1..(Len(qs) - 1) : Len(qs[i].datapoints) = batch_size

\* C5: every upsert request holds between 1 and batch_size datapoints, and
\* once a file is finished nothing of its payload is left unsent.
C5_BatchBound ==
  /\ \A i \in 1..Len(upsert_requests) :
       /\ 0 < Len(upsert_requests[i].datapoints)
       /\ Len(upsert_requests[i].datapoints) <= batch_size
  /\ (pc \in {"file_loop", "namespace_loop", "done"}
        /\ insert_datapoints_payload /= <<>>) =>
       /\ upsert_requests /= <<>>
       /\ Last(upsert_requests).datapoints = insert_datapoints_payload
       /\ Last(upsert_requests).outcome = "OK"

\* C5 witness: a file ended with a partial batch after a full one.
C5_Witness ==
  /\ pc = "file_loop"
  /\ batch_size > 1
  /\ Len(upsert_requests) > 1
  /\ Len(Last(upsert_requests).datapoints) < batch_size
  /\ Len(Last(upsert_requests).datapoints) = Len(insert_datapoints_payload)
  /\ Len(upsert_requests[Len(upsert_requests) - 1].datapoints) = batch_size
  /\ upsert_requests[Len(upsert_requests) - 1].file = Last(upsert_requests).file

\* C6: when every upsert succeeds, the batches of a finished file, in the
\* order sent, are together exactly the file's rows in file order.
C6_RowConservation ==
  AllUpsertsOK =>
    \A nf \in ManifestFiles :
      FileComplete(nf[1], nf[2]) =>
        FileBatches(nf[1], nf[2]) = FileDatapoints(nf[1], nf[2])

\* C6 witness: a finished file of at least three rows sent in several batches.
C6_Witness ==
  /\ AllUpsertsOK
  /\ pc = "done"
  /\ \E nf \in ManifestFiles :
       /\ ParquetFiles(nf[1])[nf[2]] >= 3
       /\ Len(FileRequests(nf[1], nf[2])) >= 2
       /\ \E i \in 1..Len(FileRequests(nf[1], nf[2])) :
            Len(FileRequests(nf[1], nf[2])[i].datapoints) >= 2

\* C7: index `demo`, one namespace `ns1` of two files of 3 rows each and
\* batch_size 4: the run upserts 6 datapoints in exactly 2 batches of sizes 4
\* and 2, and reports 6.
C7_EndToEndScenario ==
  (pc = "done" /\ AllUpsertsOK /\ vdf_meta = ScenarioManifest /\ batch_size = 4) =>
    /\ BatchSizes = <<4, 2>>
    /\ reported = PyInt(6)

\* Rows of the requests that succeeded.
CommittedRows ==
  LET ok == SelectSeq(upsert_requests, LAMBDA q : q.outcome = "OK")
  IN Len(Flatten([i \in 1..Len(ok) |-> ok[i].datapoints]))

\* C8: when the upsert of a batch fails fatally, the run aborts and reports
\* the number of rows of the batches that succeeded before it.
C8_FatalAbortAccounting ==
  (Aborted /\ Last(upsert_requests).outcome = "FatalError") =>
    reported = PyInt(CommittedRows)

\* How often the batch of request i was submitted.
Attempts(i) ==
  Cardinality({j \in 1..Len(upsert_requests) :
                 upsert_requests[j].datapoints = upsert_requests[i].datapoints})

\* C9: a batch whose upsert fails transiently is submitted again before any
\* later batch, and the run is not aborted on its first failure.
C9_AtLeastOnceUpsert ==
  \A i \in 1..Len(upsert_requests) :
    upsert_requests[i].outcome = "TransientError" =>
      IF i < Len(upsert_requests)
      THEN upsert_requests[i + 1].datapoints = upsert_requests[i].datapoints
      ELSE ~(pc = "failed" /\ Attempts(i) = 1)

\* The index reconcile has reached EXISTS: the importer holds the resource
\* id of an index of the service.
IndexExists ==
  /\ target_index /= None
  /\ target_index_resource_name /= None
  /\ target_index_resource_name.s = target_index.name
  /\ GetByName(indexes, target_index_resource_name.s) /= None

\* C10: upsert_data runs, and an upsert request is issued, only once the
\* index reconcile has reached EXISTS; every request is addressed to the
\* resource id held.
C10_ReconcileBeforeIngest ==
  (pc \in UpsertPcs \/ upsert_requests /= <<>>) =>
    /\ IndexExists
    /\ \A i \in 1..Len(upsert_requests) :
         upsert_requests[i].index = target_index_resource_name.s

\* C10 witness: rows were upserted into an index this run created.
C10_Witness ==
  /\ upsert_requests /= <<>>
  /\ args.create_new_index
  /\ calls.create_index = 1
  /\ target_index.name = Last(indexes).name

\* ---------------------------------------------------------------- C11, C12
PollPc(kind) == kind \o "_poll"

ReturnPc(kind) == kind \o "_return"

\* The resource the constructor keeps for an operation of this kind.
Held(kind) == IF kind = "create_index" THEN target_index ELSE index_endpoint

NoCalls ==
  calls = [create_index |-> 0, create_index_endpoint |-> 0, deploy_index |-> 0]

PollKeepsHandle ==
  pc \in {"create_index_poll", "create_index_endpoint_poll"} =>
    /\ calls' = calls
    /\ r'.kind = r.kind
    /\ r'.request = r.request

\* C12: a poll whose operation is done is eventually left, for the return or
\* for the failure; and a step taken while polling issues no request and
\* keeps the same operation handle.
C12_PollTermination ==
  /\ (pc = "create_index_poll" /\ r.state /= "Pending")
       ~> (pc \in {"create_index_return", "failed"})
  /\ (pc = "create_index_endpoint_poll" /\ r.state /= "Pending")
       ~> (pc \in {"create_index_endpoint_return", "failed"})
  /\ [][PollKeepsHandle]_vars

C12_Witness ==
  /\ pc = "create_index_endpoint_return"
  /\ r /= None
  /\ r.kind = "create_index_endpoint"
  /\ r.state = "Done"
  /\ calls.create_index_endpoint = 1

\* --------------------------------------------------------------------- C13
\* C13: a run that does not create, whose manifest is valid and whose named
\* index the lookup does not find, never gets past the lookup: it fails there
\* with ValueError, and no creation request, upload or upsert is ever issued.
C13_ResourceNotFound ==
  (/\ ~args.create_new_index
   /\ ~IndexesMissing
   /\ args.target_index_name /= None
   /\ GetIndex(indexes, index_endpoints, args.target_index_name.s) = None) =>
    /\ pc \in {"init", "get_index", "failed"}
    /\ pc = "failed" => error = "ValueError"
    /\ NoCalls
    /\ r = None
    /\ gcs_blobs = {}
    /\ upsert_requests = <<>>

C13_Witness ==
  /\ ~args.create_new_index
  /\ args.target_index_name /= None
  /\ GetIndex(indexes, index_endpoints, args.target_index_name.s) = None
  /\ pc = "failed"
  /\ error = "ValueError"

\* --------------------------------------------------------------------- C14
\* C14: a run that creates, with gcs_bucket or dimensions missing, fails in
\* the constructor with ValueError and goes no further: no bootstrap upload,
\* no creation request, no upsert.
C14_ConfigurationError ==
  (/\ args.create_new_index
   /\ args.gcs_bucket = None \/ args.dimensions = None) =>
    /\ pc \in {"init", "failed"}
    /\ pc = "failed" => error = "ValueError"
    /\ gcs_blobs = {}
    /\ NoCalls
    /\ r = None
    /\ upsert_requests = <<>>

C14_Witness ==
  /\ args.create_new_index
  /\ args.gcs_bucket /= None
  /\ args.dimensions = None
  /\ pc = "failed"
  /\ error = "ValueError"
  /\ gcs_blobs = {}

\* --------------------------------------------------------------------- C15
LookupNames == {"demo", "other", "other_endpoint", IndexId(1), IndexId(2)}

\* Some listed index carries the name as resource name or display name.
DirectMatch(name) ==
  \E i \in 1..Len(indexes) :
    indexes[i].name = name \/ indexes[i].display_name = name

\* The indexes behind the deployments, under any endpoint, that carry the
\* name as deployed-index id or display name.
DeploymentOwners(name) ==
  {index_endpoints[e].deployed_indexes[d].index :
     <<e, d>> \in
       {<<e, d>> \in (1..Len(index_endpoints)) \X (1..2) :
          /\ d <= Len(index_endpoints[e].deployed_indexes)
          /\ \/ index_endpoints[e].deployed_indexes[d].id = name
             \/ index_endpoints[e].deployed_indexes[d].display_name = name}}

AliasOnlyMatch(name) == ~DirectMatch(name) /\ DeploymentOwners(name) /= {}

\* C15: the lookup finds nothing exactly when no listed index and no
\* deployment carries the name; when only a deployment carries it, the
\* lookup gives the index that deployment belongs to, and a run that
\* attaches by that name holds this index.
C15_TwoNamespaceLookup ==
  /\ \A name \in LookupNames :
       LET found == GetIndex(indexes, index_endpoints, name)
       IN /\ found = None <=>
               (~DirectMatch(name) /\ DeploymentOwners(name) = {})
          /\ AliasOnlyMatch(name) =>
               found /= None /\ found.name \in DeploymentOwners(name)
  /\ (/\ ~args.create_new_index
      /\ args.target_index_name /= None
      /\ AliasOnlyMatch(args.target_index_name.s)
      /\ pc \in {"resolve_target", "ready"} \cup UpsertPcs) =>
       /\ target_index /= None
       /\ target_index.name \in DeploymentOwners(args.target_index_name.s)

C15_Witness ==
  /\ ~args.create_new_index
  /\ args.target_index_name = PyStr("demo")
  /\ AliasOnlyMatch("demo")
  /\ pc = "ready"
  /\ target_index.name = IndexId(1)
  /\ target_index.display_name = "other"

\* --------------------------------------------------------------------- C16
\* The listed indexes that carry the name.
MatchingIndexes(name) ==
  {i \in 1..Len(indexes) :
     indexes[i].name = name \/ indexes[i].display_name = name}

\* C16: a run whose index name is carried by more than one listed index
\* does not get past the lookup other than by failing.
C16_AmbiguousLookupRaises ==
  (/\ args.target_index_name /= None
   /\ Cardinality(MatchingIndexes(args.target_index_name.s)) > 1
   /\ pc \notin {"init", "get_index", "create_index"}) =>
    pc = "failed"

\* ---------------------------------------------------------------- C17..C20
\* Every datapoint built so far: those sent in a request, those in the payload.
EmittedDatapoints ==
  UNION {{upsert_requests[q].datapoints[j] :
            j \in 1..Len(upsert_requests[q].datapoints)} :
           q \in 1..Len(upsert_requests)}
  \cup {insert_datapoints_payload[j] : j \in 1..Len(insert_datapoints_payload)}

AllRows ==
  UNION {{Row(ns, f, i) : i \in 0..(ParquetFiles(ns)[f] - 1)} :
           <<ns, f>> \in {<<ns, f>> \in (1..Len(NamespaceMetas)) \X (1..MaxFiles) :
                            f <= Len(ParquetFiles(ns))}}

\* The row a datapoint was built from.
RowOf(dp) == CHOOSE row \in AllRows : ToString(row.id) = dp.datapoint_id

\* The configured namespace filters, and the numeric ones.
FilterSpecs ==
  IF args.filter_restricts = None THEN <<>> ELSE args.filter_restricts.items

NumericSpecs ==
  IF args.numeric_restricts = None THEN <<>> ELSE args.numeric_restricts.items

\* The allow or deny columns a filter configures.
ColumnsOf(spec, key) == IF key \in DOMAIN spec THEN spec[key].items ELSE <<>>

\* The string forms of the row's values at the columns, in order.
StringForms(row, cols) == [j \in 1..Len(cols) |-> str(row[cols[j]])]

\* A list of an emitted entry; one that is not set reads empty.
ListOf(entry, key) == IF key \in DOMAIN entry THEN entry[key] ELSE <<>>

\* C17: for every datapoint and every configured namespace filter, the
\* entry emitted for the filter has as allow_list exactly the string forms of
\* the row's values at the filter's allow columns, in order, and as
\* deny_list those at its deny columns.
C17_RestrictStringification ==
  \A dp \in EmittedDatapoints :
    \A k \in 1..Len(FilterSpecs) :
      /\ k <= Len(dp.restricts)
      /\ ListOf(dp.restricts[k], "allow_list") =
           StringForms(RowOf(dp), ColumnsOf(FilterSpecs[k], "allow_list"))
      /\ ListOf(dp.restricts[k], "deny_list") =
           StringForms(RowOf(dp), ColumnsOf(FilterSpecs[k], "deny_list"))

\* C18: every datapoint carries one restrict entry per configured namespace
\* filter, in the order configured, each with the filter's namespace; the
\* entry of a filter with no allow and no deny column has the namespace only.
C18_RestrictEntryPresence ==
  \A dp \in EmittedDatapoints :
    /\ Len(dp.restricts) = Len(FilterSpecs)
    /\ \A k \in 1..Len(FilterSpecs) :
         /\ dp.restricts[k].namespace = FilterSpecs[k].namespace
         /\ (/\ ColumnsOf(FilterSpecs[k], "allow_list") = <<>>
             /\ ColumnsOf(FilterSpecs[k], "deny_list") = <<>>) =>
              DOMAIN dp.restricts[k] = {"namespace"}

C18_Witness ==
  \E q \in 1..Len(upsert_requests) :
    \E j \in 1..Len(upsert_requests[q].datapoints) :
      LET dp == upsert_requests[q].datapoints[j]
      IN /\ Len(FilterSpecs) = 4
         /\ Len(dp.restricts) = 4
         /\ dp.restricts[2] = [namespace |-> "bare"]
         /\ dp.restricts[3] = [namespace |-> "empty"]
         /\ "allow_list" \in DOMAIN dp.restricts[1]

\* The value in the type the numeric filter names.
Coerce(data_type, v) ==
  IF data_type \in {"value_float", "value_double"}
  THEN PyFloat(v.n) ELSE PyInt(v.n)

\* C19: for every datapoint and every configured numeric filter, the entry
\* emitted for the filter has the filter's namespace and one typed field,
\* named by data_type, holding the row's value at source_column in that type.
C19_NumericRestrictTyping ==
  \A dp \in EmittedDatapoints :
    /\ Len(dp.numeric_restricts) = Len(NumericSpecs)
    /\ \A k \in 1..Len(NumericSpecs) :
         NumericSpecs[k].source_column \in DOMAIN RowOf(dp) =>
         dp.numeric_restricts[k] =
           [namespace |-> NumericSpecs[k].namespace]
           @@ (NumericSpecs[k].data_type :>
                 Coerce(NumericSpecs[k].data_type,
                        RowOf(dp)[NumericSpecs[k].source_column]))

\* C20: with no crowding column configured every datapoint's
\* crowding_attribute is empty, never "None"; with one configured it is the
\* string form of the row's value at that column.
C20_CrowdingAbsence ==
  \A dp \in EmittedDatapoints :
    IF args.crowding_tag = None
    THEN /\ dp.crowding_tag.crowding_attribute = ""
         /\ dp.crowding_tag.crowding_attribute /= "None"
    ELSE dp.crowding_tag.crowding_attribute =
           str(RowOf(dp)[args.crowding_tag.s])

C20_Witness ==
  /\ args.crowding_tag = None
  /\ Len(upsert_requests) = 2
  /\ \A q \in 1..2 :
       /\ Len(upsert_requests[q].datapoints) = 1
       /\ upsert_requests[q].datapoints[1].crowding_tag.crowding_attribute = ""
  /\ pc = "done"

\* --------------------------------------------------------------------- C21
RECURSIVE SumSeq(_)
SumSeq(ns) == IF ns = <<>> THEN 0 ELSE ns[1] + SumSeq(Tail(ns))

\* The rows of a namespace, over all its files.
NamespaceRows(ns) == SumSeq(ParquetFiles(ns))

\* C21: a run that processed every file of every namespace reports as the
\* total the sum of the rows of all the namespaces it processed.
C21_CountReport ==
  pc = "done" =>
    reported =
      PyInt(SumSeq([ns \in 1..Len(NamespaceMetas) |-> NamespaceRows(ns)]))

\* --------------------------------------------------------------------- C22
\* C22: the id of every datapoint sent for a file is the string form of the
\* value its row has in the id column the manifest names.
C22_DatapointIdSource ==
  \A nf \in ManifestFiles :
    \A i \in 1..Len(FileBatches(nf[1], nf[2])) :
      vdf_meta.id_column \in FrameColumns(nf[1], nf[2]) =>
        FileBatches(nf[1], nf[2])[i].datapoint_id =
          ToString(Row(nf[1], nf[2], i - 1)[vdf_meta.id_column])

\* --------------------------------------------------------------------- C23
\* C23: with a manifest that has no indexes key the run fails in the
\* constructor with the base class's exception: no lookup result is kept, no
\* creation request is made, nothing is uploaded and nothing upserted.
C23_InvalidManifest ==
  "indexes" \notin DOMAIN vdf_meta =>
    /\ pc \in {"init", "failed"}
    /\ pc = "failed" => error = "Exception"
    /\ NoCalls
    /\ r = None
    /\ target_index = None
    /\ index_name = None
    /\ contents_delta_uri = None
    /\ gcs_blobs = {}
    /\ upsert_requests = <<>>

C23_Witness ==
  /\ "indexes" \notin DOMAIN vdf_meta
  /\ args.create_new_index
  /\ pc = "failed"
  /\ error = "Exception"

\* --------------------------------------------------------------------- C24
\* The step that submits an index creation request finds the one placeholder
\* record uploaded, and the request names the record's folder.
BootstrapBeforeCreate ==
  calls'.create_index > calls.create_index =>
    /\ Cardinality(gcs_blobs) = 1
    /\ \A blob \in gcs_blobs :
         /\ blob.embedding = [j \in 1..args.dimensions.n |-> 0]
         /\ blob.id = UniqueId
         /\ blob.bucket = args.gcs_bucket.s
         /\ blob.name = "init_index" \o "/embeddings_0.json"
         /\ r'.kind = "create_index"
         /\ r'.request.contents_delta_uri =
              PyStr("gs://" \o blob.bucket \o "/" \o "init_index")

\* C24: whenever an index creation request is submitted, a single
\* placeholder record, a zero vector of the configured dimensions with the
\* run's unique id, is already in the bucket, and the request's
\* contents_delta_uri is the folder of that record.
C24_BootstrapOrdering == [][BootstrapBeforeCreate]_vars

C24_Witness ==
  /\ pc = "create_index_poll"
  /\ calls.create_index = 1
  /\ r.request.contents_delta_uri = PyStr("gs://bucket/init_index")
  /\ \E blob \in gcs_blobs : blob.embedding = <<0, 0>>

\* --------------------------------------------------------------------- C26
\* The columns the manifest and the arguments name for the rows of a
\* namespace: allow and deny columns, numeric source columns, the crowding
\* column, the vector column and the id column.
ConfiguredColumns(ns) ==
  UNION {{ColumnsOf(FilterSpecs[k], key)[j] :
            j \in 1..Len(ColumnsOf(FilterSpecs[k], key))} :
           <<k, key>> \in (1..Len(FilterSpecs)) \X {"allow_list", "deny_list"}}
  \cup {NumericSpecs[k].source_column : k \in 1..Len(NumericSpecs)}
  \cup (IF args.crowding_tag = None THEN {} ELSE {args.crowding_tag.s})
  \cup {VectorColumnName(NamespaceMetas[ns]), vdf_meta.id_column}

\* C26: when the rows of a file lack a configured column, the run does not
\* get past that file and no request is built from its rows.
C26_SchemaMismatch ==
  \A nf \in ManifestFiles :
    (/\ ParquetFiles(nf[1])[nf[2]] > 0
     /\ ~(ConfiguredColumns(nf[1]) \subseteq FrameColumns(nf[1], nf[2]))) =>
      /\ FileRequests(nf[1], nf[2]) = <<>>
      /\ ~FileComplete(nf[1], nf[2])

\* --------------------------------------------------------------------- C27
\* Every request built so far is addressed to the resolved index.
RequestsAddressTarget ==
  \A q \in 1..Len(upsert_requests) :
    /\ upsert_requests[q].index = target_index.name
    /\ upsert_requests[q].index = target_index_resource_name.s
    /\ upsert_requests[q].index = target_vertexai_index.resource_name

\* A step taken once the constructor is through leaves the handle as it is.
TargetHandleUnchanged ==
  pc \in {"ready"} \cup UpsertPcs =>
    /\ target_index' = target_index
    /\ target_index_resource_name' = target_index_resource_name
    /\ target_vertexai_index' = target_vertexai_index

\* C27: every upsert request is addressed to the resource name of the index
\* the constructor resolved, and no step of upsert_data changes the resolved
\* index, its resource name or its handle.
C27_TargetHandleFrame ==
  /\ []RequestsAddressTarget
  /\ [][TargetHandleUnchanged]_vars

C27_Witness ==
  /\ pc = "done"
  /\ calls.create_index = 1
  /\ Len(upsert_requests) >= 2
  /\ \A q \in 1..Len(upsert_requests) :
       upsert_requests[q].index = IndexId(1)
  /\ target_vertexai_index.resource_name = IndexId(1)

\* --------------------------------------------------------------------- C30
GeneratedIndexName == PyStr("my_vvs_index_" \o UniqueId)

\* C30: a run that creates, is given no index name and has its bucket and
\* dimensions keeps the generated name through the index reconcile, uses it
\* for the creation request and the endpoint name, and does not fail for
\* lack of a name.
C30_GeneratedIndexName ==
  (/\ args.create_new_index
   /\ args.target_index_name = None
   /\ args.gcs_bucket /= None
   /\ args.dimensions /= None
   /\ pc \notin {"init", "create_index"}) =>
    /\ index_name = GeneratedIndexName
    /\ error /= "ResourceNotExistException"
    /\ (calls.create_index > 0 /\ r.kind = "create_index") =>
         r.request.display_name = GeneratedIndexName.s
    /\ index_endpoint_name /= None =>
         index_endpoint_name = PyStr(GeneratedIndexName.s \o "_endpoint")

\* --------------------------------------------------------------------- C28
\* C28: while two importers reconcile the same index name against the same
\* service, the service never holds more than one index with that display
\* name.
C28_NoDuplicateIndex ==
  Cardinality({i \in 1..Len(indexes) :
                 indexes[i].display_name = args.target_index_name.s}) <= 1

\* --------------------------------------------------------------------- C29
NotFoundOnlyWhenAbsent ==
  /\ calls'.create_index > calls.create_index
       => GetIndex(indexes, index_endpoints, index_name'.s) = None
  /\ (pc = "get_index" /\ error' = "ValueError")
       => GetIndex(indexes, index_endpoints, index_name.s) = None

\* C29: the lookup concludes not-found, which requests creation on the create
\* path and fails the attach path, only when neither the direct phase nor
\* the alias phase has a match; a transport error during the lookup is never
\* taken for not-found.
C29_LookupErrorTransparency == [][NotFoundOnlyWhenAbsent]_vars

\* --------------------------------------------------------------------- C25
\* C25: a run interrupted from outside has stopped, and has reported the
\* counts it accumulated up to the interruption.
C25_Cancellation ==
  error = "KeyboardInterrupt"
    => pc = "failed" /\ reported = PyInt(Len(total_ids))

\* --------------------------------------------------------------------- C31
EndpointReconcile ==
  {"create_index_endpoint", "create_index_endpoint_poll",
   "create_index_endpoint_return"}

DeployAttempt == {"deploy_index", "deploy_index_poll", "deploy_index_return"}

\* C31: within one run the endpoint is reconciled only after the index
\* reconcile has returned its index; the deployment is attempted only after
\* both reconciles have returned and only when create_new_index and
\* deploy_new_index are both set; a run with create_new_index false issues no
\* index creation, no endpoint creation and no deploy request, whatever
\* deploy_new_index is.
C31_ReconcileOrdering ==
  /\ (pc \in EndpointReconcile \/ calls.create_index_endpoint > 0)
       => /\ target_index /= None
          /\ pc \notin {"create_index", "create_index_poll",
                        "create_index_return"}
  /\ (pc \in DeployAttempt \/ calls.deploy_index > 0)
       => /\ target_index /= None
          /\ index_endpoint /= None
          /\ args.create_new_index
          /\ args.deploy_new_index
  /\ ~args.create_new_index
       => /\ NoCalls
          /\ r = None
          /\ pc \notin EndpointReconcile \cup DeployAttempt

\* The deployment is attempted in a run that created its endpoint.
C31_Witness ==
  /\ pc = "deploy_index"
  /\ calls.create_index_endpoint > 0
  /\ target_index /= None
  /\ index_endpoint /= None

====
